---- MODULE Spec2Model ----
(***************************************************************************)
(* A model of code_break_ida.py: the line collectors and the anchor        *)
(* rotation, the line-to-brick layout of CodeBreakWidget._build_bricks and *)
(* the Breakout simulation driven by CodeBreakWidget._tick and the key     *)
(* handlers.                                                               *)
(*                                                                         *)
(* Numbers.  The widget keeps the ball's position and velocity as Python   *)
(* floats, IEEE 754 doubles: 3.8 and 4.6 are not exact and every sum is    *)
(* rounded to nearest, ties to even.  The model keeps each of them as the  *)
(* double it is, sign, exponent and the 53-bit mantissa in two halves, and *)
(* computes sums, products and quotients bit for bit.  The paddle, the     *)
(* widget's size and the bricks' rectangles are whole numbers of pixels    *)
(* in the code (floats without a fraction, far below 2^53) and are kept as *)
(* integers.                                                               *)
(*                                                                         *)
(* Text.  The code looks at a line only through str.strip(), the regular   *)
(* expression \S+|\s+ and the font's horizontal advance.  A text is kept   *)
(* as its run-length encoding over the two character classes: a sequence   *)
(* of runs [ws |-> BOOLEAN, n |-> number of characters].                   *)
(***************************************************************************)
EXTENDS Integers, Sequences, FiniteSets, TLC

\* ------------------------------------------------------------------ bounds
\* Paddle deflections of one flight followed (the timer stops being followed
\* at the next one).
MaxPaddleHits == 2

\* ------------------------------------------------------- program constants
MAX_BRICK_LINES == 56
PADDLE_W == 130
PADDLE_H == 12
PADDLE_SPEED == 9
PADDLE_X0 == 300
BALL_R == 7
BALL_X0 == 350
BALL_Y0 == 350
MARGIN == 10
CODE_LEFT == 70
CODE_RIGHT_PAD == 18
CODE_TOP == 64
CODE_BOTTOM_PAD == 70
MIN_LINE_H == 16
MIN_BRICK_W == 6
MIN_W == 640
MIN_H == 360
MIN_RESET_H == 300
BALL_REST_ABOVE == 42
PADDLE_ABOVE == 30
BRICK_SCORE == 10
START_LIVES == 3
WIDGET_MIN_W == 800
WIDGET_MIN_H == 520

\* ------------------------------------------------------------- arithmetic
Max(a, b) == IF a >= b THEN a ELSE b

Min(a, b) == IF a <= b THEN a ELSE b

\* The number of bits of a natural number below 2^w, by halving w.
BitLen1(x) == IF x >= 1 THEN 1 ELSE 0

BitLen2(x) == (IF x >= 2 THEN 1 ELSE 0) + BitLen1(IF x >= 2 THEN x \div 2 ELSE x)

BitLen4(x) == (IF x >= 4 THEN 2 ELSE 0) + BitLen2(IF x >= 4 THEN x \div 4 ELSE x)

BitLen8(x) == (IF x >= 16 THEN 4 ELSE 0) + BitLen4(IF x >= 16 THEN x \div 16 ELSE x)

BitLen16(x) ==
    (IF x >= 256 THEN 8 ELSE 0) + BitLen8(IF x >= 256 THEN x \div 256 ELSE x)

\* The number of bits of a natural number below 2^31.
BitLen(x) ==
    (IF x >= 65536 THEN 16 ELSE 0) + BitLen16(IF x >= 65536 THEN x \div 65536 ELSE x)

\* A double is kept as [neg, e, hi, lo]: its value is the 53-bit mantissa
\* hi * 2^27 + lo times 2^e, negated when neg; hi >= 2^25 unless the value
\* is zero, which is hi = lo = e = 0.
DZero == [neg |-> FALSE, e |-> 0, hi |-> 0, lo |-> 0]

IsZero(a) == a.hi = 0 /\ a.lo = 0

\* float(n) of an int n below 2^26 in size: the sign, |n| and its bits.
DIntOf(neg, m, bl) == [neg |-> neg, e |-> bl - 53, hi |-> m * 2^(26 - bl), lo |-> 0]

DInt(n) ==
    IF n = 0 THEN DZero
    ELSE IF n < 0 THEN DIntOf(TRUE, -n, BitLen(-n))
    ELSE DIntOf(FALSE, n, BitLen(n))

DNeg(a) == [a EXCEPT !.neg = ~a.neg]

DAbs(a) == [a EXCEPT !.neg = FALSE]

\* |a| < |b|
MagLt(a, b) ==
    IF IsZero(b) THEN FALSE
    ELSE IF IsZero(a) THEN TRUE
    ELSE \/ a.e < b.e
         \/ a.e = b.e /\ (a.hi < b.hi \/ (a.hi = b.hi /\ a.lo < b.lo))

\* a < b
DLt(a, b) ==
    IF IsZero(a) /\ IsZero(b) THEN FALSE
    ELSE IF IsZero(a) THEN ~b.neg
    ELSE IF IsZero(b) THEN a.neg
    ELSE IF a.neg # b.neg THEN a.neg
    ELSE IF a.neg THEN MagLt(b, a) ELSE MagLt(a, b)

\* a <= b
DLe(a, b) == ~DLt(b, a)

\* a == b
DEq(a, b) == ~DLt(a, b) /\ ~DLt(b, a)

\* A mantissa with a carry out of its low half passed on, and out of its
\* high half made a step of the exponent.
Carried(neg, e, hi, lo) ==
    IF lo < 2^27 THEN [neg |-> neg, e |-> e, hi |-> hi, lo |-> lo]
    ELSE IF hi + 1 < 2^26 THEN [neg |-> neg, e |-> e, hi |-> hi + 1, lo |-> 0]
    ELSE [neg |-> neg, e |-> e + 1, hi |-> 2^25, lo |-> 0]

\* The 56-bit number xh * 2^28 + xl shifted right by d bits; a bit shifted
\* out is kept in the lowest bit (the sticky bit).
ShiftRightSticky(xh, xl, d) ==
    IF d = 0 THEN <<xh, xl>>
    ELSE LET yh == IF d < 28 THEN xh \div 2^d ELSE 0
             yl == IF d < 28 THEN xl \div 2^d + (xh % 2^d) * 2^(28 - d)
                   ELSE IF d = 28 THEN xh
                   ELSE IF d < 56 THEN xh \div 2^(d - 28)
                   ELSE 0
             lost == IF d < 28 THEN xl % 2^d # 0
                     ELSE IF d = 28 THEN xl # 0
                     ELSE IF d < 56 THEN xh % 2^(d - 28) # 0 \/ xl # 0
                     ELSE TRUE
         IN  <<yh, IF lost /\ yl % 2 = 0 THEN yl + 1 ELSE yl>>

\* The same shifted left by k bits, the result below 2^56.
ShiftLeft(xh, xl, k) ==
    IF k = 0 THEN <<xh, xl>>
    ELSE IF k < 28
         THEN <<(xh % 2^(28 - k)) * 2^k + xl \div 2^(28 - k),
                (xl % 2^(28 - k)) * 2^k>>
    ELSE IF k = 28 THEN <<xl, 0>>
    ELSE <<(xl % 2^(56 - k)) * 2^(k - 28), 0>>

\* Round to nearest, ties to even: sh * 2^28 + sl has 56 bits, the lowest
\* three beyond the mantissa, and stands for that number times 2^(e - 3).
Round56(neg, e, sh, sl) ==
    LET hi == sh \div 4
        lo == (sh % 4) * 2^25 + sl \div 8
        r == sl % 8
        up == r > 4 \/ (r = 4 /\ lo % 2 = 1)
    IN  Carried(neg, e, hi, IF up THEN lo + 1 ELSE lo)

\* The whole part of |a| for |a| < 2^26, and whether a is a whole number.
WholePart(a) ==
    IF IsZero(a) \/ a.e < -53 THEN 0 ELSE a.hi \div 2^(-27 - a.e)

IsWhole(a) ==
    IsZero(a) \/ (a.e >= -53 /\ a.lo = 0 /\ a.hi % 2^(-27 - a.e) = 0)

\* The largest int not above a and the smallest int not below a.
DFloor(a) ==
    IF a.neg THEN -(WholePart(a) + (IF IsWhole(a) THEN 0 ELSE 1)) ELSE WholePart(a)

DCeil(a) ==
    IF a.neg THEN -WholePart(a) ELSE WholePart(a) + (IF IsWhole(a) THEN 0 ELSE 1)

\* Round56 of a pair <<sh, sl>>.
RoundPair(neg, e, t) == Round56(neg, e, t[1], t[2])

\* The sum sh * 2^28 + sl of two aligned mantissas of a's sign: a carry out
\* of the 56 bits shifts it right by one.
Summed(a, sh, sl) ==
    IF sh >= 2^28 THEN RoundPair(a.neg, a.e + 1, ShiftRightSticky(sh, sl, 1))
    ELSE Round56(a.neg, a.e, sh, sl)

\* The difference sh * 2^28 + sl of two aligned mantissas, not zero, shifted
\* left by the k bits it lost.
Normalized(a, sh, sl, k) == RoundPair(a.neg, a.e - k, ShiftLeft(sh, sl, k))

Differed(a, sh, sl) ==
    IF sh = 0 /\ sl = 0 THEN DZero
    ELSE Normalized(a, sh, sl,
                    56 - (IF sh > 0 THEN 28 + BitLen(sh) ELSE BitLen(sl)))

\* a + b for the mantissa ah * 2^28 + al of a, with three bits below the
\* mantissa, and the mantissa bs of b shifted to the exponent of a.
AddAligned(a, bneg, ah, al, bs) ==
    IF a.neg = bneg
    THEN Summed(a, ah + bs[1] + (al + bs[2]) \div 2^28, (al + bs[2]) % 2^28)
    ELSE Differed(a, ah - bs[1] - (IF al < bs[2] THEN 1 ELSE 0),
                  al - bs[2] + (IF al < bs[2] THEN 2^28 ELSE 0))

\* a + b for a and b not zero, |a| >= |b|.
AddOrdered(a, b) ==
    AddAligned(a, b.neg, a.hi * 4 + a.lo \div 2^25, (a.lo % 2^25) * 8,
               ShiftRightSticky(b.hi * 4 + b.lo \div 2^25, (b.lo % 2^25) * 8,
                                Min(a.e - b.e, 56)))

\* a + b
DAdd(a, b) ==
    IF IsZero(a) /\ IsZero(b) THEN [DZero EXCEPT !.neg = a.neg /\ b.neg]
    ELSE IF IsZero(b) THEN a
    ELSE IF IsZero(a) THEN b
    ELSE AddOrdered(IF MagLt(a, b) THEN b ELSE a, IF MagLt(a, b) THEN a ELSE b)

\* a - b
DSub(a, b) == DAdd(a, DNeg(b))

\* a * n for the product ph * 2^27 + pl of the mantissa and n, which has sh
\* bits more than a mantissa.
MulRounded(a, ph, pl, sh) ==
    LET r == pl % 2^sh
        lo == (ph % 2^sh) * 2^(27 - sh) + (pl % 2^27) \div 2^sh
        up == sh > 0 /\ (2 * r > 2^sh \/ (2 * r = 2^sh /\ lo % 2 = 1))
    IN  Carried(a.neg, a.e + sh, ph \div 2^sh, IF up THEN lo + 1 ELSE lo)

MulShifted(a, ph, pl) == MulRounded(a, ph, pl, BitLen(ph) - 26)

\* a * n for an int n in 1..15
DMulInt(a, n) ==
    IF IsZero(a) THEN a
    ELSE MulShifted(a, a.hi * n + (a.lo * n) \div 2^27, (a.lo * n) % 2^27)

\* The three-digit number n2 n1 n0 in base 2^27 divided by p <= 15: the
\* digits of the quotient and the remainder.
Div3(n, p) ==
    LET c1 == (n[1] % p) * 2^27 + n[2]
        c0 == (c1 % p) * 2^27 + n[3]
    IN  [q |-> <<n[1] \div p, c1 \div p, c0 \div p>>, r |-> c0 % p]

\* a / (p * q) for the quotient v1 * 2^27 + v0 of the mantissa times 2^k by
\* p * q and its remainder rem.
DivRounded(a, pq, k, v1, v0, rem) ==
    IF v1 >= 2^26
    THEN LET lo == v0 \div 2 + (v1 % 2) * 2^26
             up == v0 % 2 = 1 /\ (rem # 0 \/ lo % 2 = 1)
         IN  Carried(a.neg, a.e - k + 1, v1 \div 2, IF up THEN lo + 1 ELSE lo)
    ELSE LET up == 2 * rem > pq \/ (2 * rem = pq /\ v0 % 2 = 1)
         IN  Carried(a.neg, a.e - k, v1, IF up THEN v0 + 1 ELSE v0)

\* The same for the quotient u by p and its quotient v by q.
DivTwice(a, p, q, k, u, v) ==
    DivRounded(a, p * q, k, v.q[2], v.q[3], v.r * p + u.r)

DivOnce(a, p, q, k, u) == DivTwice(a, p, q, k, u, Div3(u.q, q))

\* a / (p * q) for ints p, q in 1..15 with 2^(k-1) < p * q <= 2^k: the
\* mantissa times 2^k has a quotient of 53 or 54 bits.
DDivBy(a, p, q, k) ==
    IF IsZero(a) THEN a
    ELSE DivOnce(a, p, q, k,
                 Div3(<<a.hi \div 2^(27 - k),
                        (a.hi % 2^(27 - k)) * 2^k + a.lo \div 2^(27 - k),
                        (a.lo % 2^(27 - k)) * 2^k>>, p))

\* The float literals of the code.
DHalf == [neg |-> FALSE, e |-> -53, hi |-> 2^25, lo |-> 0]

BALL_RADIUS == DInt(BALL_R)

BALL_DIAMETER == DMulInt(BALL_RADIUS, 2)

BALL_VX0 == DDivBy(DInt(38), 10, 1, 4)

BALL_VY0 == DNeg(DDivBy(DInt(46), 10, 1, 4))

\* ------------------------------------------------------------------- text
Word(n) == [ws |-> FALSE, n |-> n]

Space(n) == [ws |-> TRUE, n |-> n]

\* str.strip(): leading and trailing whitespace runs removed.
RECURSIVE LStrip(_)
LStrip(t) == IF Len(t) = 0 THEN t
             ELSE IF t[1].ws \/ t[1].n = 0 THEN LStrip(Tail(t)) ELSE t

RECURSIVE RStrip(_)
RStrip(t) == IF Len(t) = 0 THEN t
             ELSE IF t[Len(t)].ws \/ t[Len(t)].n = 0
                  THEN RStrip(SubSeq(t, 1, Len(t) - 1)) ELSE t

\* _clean_ida_line: tag_remove(line or "").strip(); a raw line is given
\* with its colour tags already removed.
CleanIdaLine(line) == RStrip(LStrip(line))

\* LINE_SPLIT_RE.findall: the maximal runs of \S and of \s, in order.
RECURSIVE SplitFrom(_, _, _)
SplitFrom(t, k, acc) ==
    IF k > Len(t) THEN acc
    ELSE IF t[k].n = 0 THEN SplitFrom(t, k + 1, acc)
    ELSE IF Len(acc) > 0 /\ acc[Len(acc)].ws = t[k].ws
         THEN SplitFrom(t, k + 1,
                  [acc EXCEPT ![Len(acc)].n = acc[Len(acc)].n + t[k].n])
         ELSE SplitFrom(t, k + 1, Append(acc, t[k]))

LineSplit(t) == SplitFrom(t, 1, <<>>)

\* --------------------------------------------------------------- rotation
\* A mutant of the rotation: the out-of-range anchor wraps instead of
\* falling back to 0.
RotateItemsWrap(items, anchor_idx, limit) ==
    IF Len(items) = 0 THEN <<>>
    ELSE LET n == Len(items)
         IN  [i \in 1..Min(limit, n) |-> items[((anchor_idx + (i - 1)) % n) + 1]]

\* A mutant of the rotation: the loop runs one item short.
RotateItemsShort(items, anchor_idx, limit) ==
    IF Len(items) = 0 THEN <<>>
    ELSE LET n == Len(items)
             a == IF anchor_idx < 0 \/ anchor_idx >= n THEN 0 ELSE anchor_idx
         IN  [i \in 1..(Min(limit, n) - 1) |-> items[((a + (i - 1)) % n) + 1]]

\* _rotate_items_from_anchor
RotateItems(items, anchor_idx, limit) ==
    IF Len(items) = 0 THEN <<>>
    ELSE LET n == Len(items)
             a == IF anchor_idx < 0 \/ anchor_idx >= n THEN 0 ELSE anchor_idx
         IN  [i \in 1..Min(limit, n) |-> items[((a + (i - 1)) % n) + 1]]

\* ------------------------------------------------------------- collectors
\* The lines of a collector that clean to non-empty text, each with its
\* 1-based line number and 0-based raw index: (raw_idx + 1, line, raw_idx).
NonEmptyLines(raw) ==
    LET numbered == [k \in 1..Len(raw) |->
                        [line_no |-> k, text |-> CleanIdaLine(raw[k]),
                         raw_idx |-> k - 1]]
        kept(r) == Len(r.text) > 0
    IN  SelectSeq(numbered, kept)

\* The index (0-based) of the first kept line whose raw index reaches the
\* anchor, 0 when there is none.
AnchorIdx(lines, anchor_raw) ==
    LET hits == {i \in 1..Len(lines) : lines[i].raw_idx >= anchor_raw}
    IN  IF hits = {} THEN 0
        ELSE (CHOOSE i \in hits : \A j \in hits : i <= j) - 1

StripRaw(lines) == [i \in 1..Len(lines) |->
                      [line_no |-> lines[i].line_no, text |-> lines[i].text]]

NoLines == [lines |-> <<>>, anchor |-> 0]

\* _get_hexrays_anchor_raw_idx: the cursor line when it is an int >= 0.
HexraysAnchorRaw(c) == IF c.hexrays /\ c.lnnum >= 0 THEN c.lnnum ELSE 0

\* _collect_decompiler_lines
CollectDecompilerLines(c) ==
    IF ~c.hexrays THEN NoLines
    ELSE LET lines == NonEmptyLines(c.pseudocode)
         IN  IF Len(lines) = 0 THEN NoLines
             ELSE [lines |-> StripRaw(lines),
                   anchor |-> AnchorIdx(lines, HexraysAnchorRaw(c))]

\* _collect_disasm_lines: c.items are the function's item addresses, c.ea
\* the address asked for, c.disasm the text generated for each item.
CollectDisasmLines(c) ==
    IF ~c.has_func \/ Len(c.items) = 0 THEN NoLines
    ELSE LET at == {i \in 1..Len(c.items) : c.items[i] >= c.ea}
             anchor_raw == IF at = {} THEN 0
                           ELSE (CHOOSE i \in at : \A j \in at : i <= j) - 1
             lines == NonEmptyLines(c.disasm)
         IN  IF Len(lines) = 0 THEN NoLines
             ELSE [lines |-> StripRaw(lines),
                   anchor |-> AnchorIdx(lines, anchor_raw)]

\* The five built-in lines: "mov eax, ebx", "cmp eax, 0", "jne loc_next",
\* "call sub_handler", "ret".
Placeholder ==
    << [line_no |-> 1, text |-> <<Word(3), Space(1), Word(4), Space(1), Word(3)>>],
       [line_no |-> 2, text |-> <<Word(3), Space(1), Word(4), Space(1), Word(1)>>],
       [line_no |-> 3, text |-> <<Word(3), Space(1), Word(8)>>],
       [line_no |-> 4, text |-> <<Word(4), Space(1), Word(11)>>],
       [line_no |-> 5, text |-> <<Word(3)>>] >>

\* A mutant of the extraction: no built-in lines when both collectors are
\* empty.
ExtractNoFallback(c, max_tokens) ==
    LET dec == CollectDecompilerLines(c)
        got == IF Len(dec.lines) = 0 THEN CollectDisasmLines(c) ELSE dec
    IN  RotateItems(got.lines, got.anchor, max_tokens)

\* _extract_line_blocks_from_current_context: the records carry line_no and
\* full_text (label is the same text).
ExtractLineBlocks(c, max_tokens) ==
    LET dec == CollectDecompilerLines(c)
        got == IF Len(dec.lines) = 0 THEN CollectDisasmLines(c) ELSE dec
        ordered == IF Len(got.lines) = 0 THEN Placeholder ELSE got.lines
    IN  RotateItems(ordered, got.anchor, max_tokens)

\* ----------------------------------------------------------------- layout
\* QFontMetrics.horizontalAdvance of a run of a fixed-pitch font.
HorizontalAdvance(f, part) == f.adv * part.n

LineH(f) == Max(MIN_LINE_H, f.height + 2)

\* int((h - code_top - 70) / line_h), at least 1; h >= 360 makes the
\* quotient positive, where int() is the floor.
MaxVisibleLines(h, f) ==
    Max(1, (h - CODE_TOP - CODE_BOTTOM_PAD) \div LineH(f))

\* A mutant of the inner loop: a part that would pass code_right is skipped
\* and the loop goes on with the next part.
RECURSIVE LineBricksSkip(_, _, _, _, _, _)
LineBricksSkip(parts, k, x, code_right, row, f) ==
    IF k > Len(parts) THEN <<>>
    ELSE LET part_w == Max(1, HorizontalAdvance(f, parts[k]))
         IN  IF x + part_w > code_right
             THEN LineBricksSkip(parts, k + 1, x, code_right, row, f)
             ELSE (IF parts[k].ws THEN <<>>
                   ELSE <<[x |-> x, y |-> row.y,
                           w |-> Max(MIN_BRICK_W, part_w), h |-> LineH(f),
                           label |-> parts[k].n, line_no |-> row.line_no,
                           alive |-> TRUE]>>)
                  \o LineBricksSkip(parts, k + 1, x + part_w, code_right, row, f)

\* The inner loop of _build_bricks over the parts of one line, from part k
\* with the cursor at x: the cursor advances over every part, a word becomes
\* a brick, and the loop breaks at the first part that would pass
\* code_right.
RECURSIVE LineBricks(_, _, _, _, _, _)
LineBricks(parts, k, x, code_right, row, f) ==
    IF k > Len(parts) THEN <<>>
    ELSE LET part_w == Max(1, HorizontalAdvance(f, parts[k]))
         IN  IF x + part_w > code_right THEN <<>>
             ELSE (IF parts[k].ws THEN <<>>
                   ELSE <<[x |-> x, y |-> row.y,
                           w |-> Max(MIN_BRICK_W, part_w), h |-> LineH(f),
                           label |-> parts[k].n, line_no |-> row.line_no,
                           alive |-> TRUE]>>)
                  \o LineBricks(parts, k + 1, x + part_w, code_right, row, f)

\* The outer loop of _build_bricks, from line i (1-based) to line n.
RECURSIVE BricksFrom(_, _, _, _, _)
BricksFrom(labels, i, n, code_right, f) ==
    IF i > n THEN <<>>
    ELSE LineBricks(LineSplit(labels[i].text), 1, CODE_LEFT, code_right,
             [y |-> CODE_TOP + (i - 1) * LineH(f), line_no |-> labels[i].line_no], f)
         \o BricksFrom(labels, i + 1, n, code_right, f)

\* _build_bricks: the bricks, in pixels; a brick's rect top is
\* y_base - ascent = code_top + i * line_h.
BuildBricks(labels, width, height, f) ==
    LET w == Max(MIN_W, width)
        h == Max(MIN_H, height)
        n == Min(Len(labels), MaxVisibleLines(h, f))
    IN  BricksFrom(labels, 1, n, w - CODE_RIGHT_PAD, f)

\* _build_bricks: render_lines, one per visible line.
BuildRenderLines(labels, height, f) ==
    LET h == Max(MIN_H, height)
        n == Min(Len(labels), MaxVisibleLines(h, f))
    IN  [i \in 1..n |-> [line_no |-> labels[i].line_no,
                         y_base |-> CODE_TOP + (i - 1) * LineH(f) + f.ascent]]

\* ------------------------------------------------------------ environment
\* A raw listing: `blocked` lines of one 110-character word each (wider
\* than the code area of an 800 pixel widget at 7 pixels a character, so
\* that the line gets no brick), then the lines `rows`; every line is
\* indented, and the second raw line is blank.
Listing(blocked, rows) ==
    [i \in 1..(blocked + 1 + Len(rows)) |->
        IF i = 2 THEN <<Space(4)>>
        ELSE IF i <= blocked + 1 THEN <<Space(2), Word(110)>>
        ELSE <<Space(2)>> \o rows[i - blocked - 1]]

\* What the collectors find at each address the user can be at:
\*   1  no decompiler, no function: both collectors are empty;
\*   2  a decompiled function of 23 non-empty lines, the last two of them
\*      narrow enough to get bricks (three in all), cursor on the first line;
\*   3  a decompiled function of 60 non-empty lines, cursor on raw line 58;
\*   4  no decompiler, a function of three instructions, the address asked
\*      for being the second one;
\*   5  a decompiled function of 20 non-empty lines, the last one with a
\*      one-character brick at the left and a wide brick at the right of the
\*      code area, no cursor;
\*   6  a decompiled function of 27 non-empty lines, the last two of them
\*      narrow enough to get a brick each: lines below what a widget 520
\*      or 530 pixels high shows, no cursor.
Ida ==
    << [hexrays |-> FALSE, lnnum |-> -1, pseudocode |-> <<>>,
        has_func |-> FALSE, items |-> <<>>, ea |-> 0, disasm |-> <<>>],
       [hexrays |-> TRUE, lnnum |-> 0,
        pseudocode |-> Listing(21, << <<Word(60)>>,
                                      <<Word(47), Space(1), Word(40)>> >>),
        has_func |-> TRUE, items |-> <<16, 18>>, ea |-> 16,
        disasm |-> <<<<Word(3)>>, <<Word(4)>>>>],
       [hexrays |-> TRUE, lnnum |-> 58, pseudocode |-> Listing(60, <<>>),
        has_func |-> TRUE, items |-> <<32>>, ea |-> 32, disasm |-> <<<<Word(4)>>>>],
       [hexrays |-> FALSE, lnnum |-> -1, pseudocode |-> <<>>,
        has_func |-> TRUE, items |-> <<48, 50, 53>>, ea |-> 50,
        disasm |-> << <<Word(4), Space(4), Word(3)>>,
                      <<Word(3), Space(5), Word(4), Space(1), Word(3)>>,
                      <<Word(4)>> >>],
       [hexrays |-> TRUE, lnnum |-> -1,
        pseudocode |-> Listing(19, << <<Word(1), Space(60), Word(35)>> >>),
        has_func |-> TRUE, items |-> <<64>>, ea |-> 64, disasm |-> <<<<Word(4)>>>>],
       [hexrays |-> TRUE, lnnum |-> -1,
        pseudocode |-> Listing(25, << <<Word(45)>>, <<Word(45)>> >>),
        has_func |-> TRUE, items |-> <<80>>, ea |-> 80, disasm |-> <<<<Word(4)>>>>] >>

\* The metrics of QFont("Menlo", 10) on the host: height, ascent and the
\* advance of one character, in pixels.
Fonts == {[height |-> 14, ascent |-> 11, adv |-> 7]}

\* ------------------------------------------------------------------ state
VARIABLES
    widget,      \* the fields of the CodeBreakWidget (see Constructed)
    form,        \* the forms: whether the form of the widget followed is
                 \*   open, what the plugin's _form holds, and how many
                 \*   other forms are open (see OneForm)
    launches,    \* launches so far
    events,      \* key, run, resize and close events so far
    last,        \* the handler that ran last and what it started from
    rot_in,      \* an application of _rotate_items_from_anchor: its
    rot_out,     \*   arguments and its result
    lay_in,      \* the layout of one line by _build_bricks at two widget
    lay_out      \*   widths: the line and the widths, and the two brick lists

vars == <<widget, form, launches, events, last, rot_in, rot_out, lay_in, lay_out>>

rotVars == <<rot_in, rot_out>>

layVars == <<lay_in, lay_out>>

gameVars == <<widget, form, launches, events, last>>

\* ------------------------------------------------------------- rectangles
Rect(x, y, w, h) == [x |-> x, y |-> y, w |-> w, h |-> h]

\* The edges QRectF.intersects computes of a QRectF(x, y, w, h) of doubles:
\* l and r are x and x + w, in this order when w >= 0, and t and b likewise.
Edges(r) ==
    [l |-> IF DLt(r.w, DZero) THEN DAdd(r.x, r.w) ELSE r.x,
     r |-> IF DLt(r.w, DZero) THEN r.x ELSE DAdd(r.x, r.w),
     t |-> IF DLt(r.h, DZero) THEN DAdd(r.y, r.h) ELSE r.y,
     b |-> IF DLt(r.h, DZero) THEN r.y ELSE DAdd(r.y, r.h)]

\* QRectF.intersects on the edges of two rectangles: a rectangle whose two
\* edges are equal meets nothing, touching edges do not intersect.
EdgesIntersect(a, b) ==
    /\ ~DEq(a.l, a.r) /\ ~DEq(b.l, b.r)
    /\ ~DLe(b.r, a.l) /\ ~DLe(a.r, b.l)
    /\ ~DEq(a.t, a.b) /\ ~DEq(b.t, b.b)
    /\ ~DLe(b.b, a.t) /\ ~DLe(a.b, b.t)

\* QRectF.intersects
RectIntersects(a, b) == EdgesIntersect(Edges(a), Edges(b))

\* _ball_rect
BallRect(s) == Rect(DSub(s.ball_x, BALL_RADIUS), DSub(s.ball_y, BALL_RADIUS),
                    BALL_DIAMETER, BALL_DIAMETER)

\* A brick's rect: the QRectF of its whole numbers.
BrickRect(b) == Rect(DInt(b.x), DInt(b.y), DInt(b.w), DInt(b.h))

\* What QRectF.intersects needs of a rectangle of doubles to test it against
\* rectangles of whole numbers: l >= n for an int n is floor(l) >= n, and
\* n >= r is n >= ceil(r).
WholeOf(e) ==
    [solid |-> ~DEq(e.l, e.r) /\ ~DEq(e.t, e.b),
     l |-> DFloor(e.l), r |-> DCeil(e.r), t |-> DFloor(e.t), b |-> DCeil(e.b)]

WholeEdges(r) == WholeOf(Edges(r))

\* QRectF.intersects of such a rectangle and a brick's rect, of whole numbers
\* x, y and w, h >= 0: RectIntersects(r, BrickRect(b)) for a = WholeEdges(r).
MeetsBrick(a, b) ==
    /\ a.solid /\ b.w # 0 /\ b.h # 0
    /\ ~(a.l >= b.x + b.w) /\ ~(b.x >= a.r)
    /\ ~(a.t >= b.y + b.h) /\ ~(b.y >= a.b)

\* paddle_rect of _tick
PaddleRect(s, h) ==
    Rect(DInt(s.paddle_x), DInt(h - PADDLE_ABOVE), DInt(PADDLE_W), DInt(PADDLE_H))

\* The two forms of the test agree on the ball's rect and every brick of a
\* widget.
BrickTestsAgree(s) ==
    \A i \in 1..Len(s.bricks) :
        MeetsBrick(WholeEdges(BallRect(s)), s.bricks[i])
            = RectIntersects(BallRect(s), BrickRect(s.bricks[i]))

\* ---------------------------------------------------------------- reloads
\* A mutant of the reset: the ball is given a downward velocity.
ResetBallDownward(s) ==
    LET h == Max(MIN_RESET_H, s.height)
        px == Max(MARGIN, Min(s.paddle_x, s.width - PADDLE_W - MARGIN))
    IN  [s EXCEPT !.paddle_x = px,
                  !.ball_x = DInt(px + PADDLE_W \div 2),
                  !.ball_y = DInt(h - BALL_REST_ABOVE),
                  !.ball_vx = BALL_VX0, !.ball_vy = DNeg(BALL_VY0),
                  !.launched = FALSE, !.hits = 0, !.flight = 0]

\* _reset_ball_on_paddle
ResetBallOnPaddle(s) ==
    LET h == Max(MIN_RESET_H, s.height)
        px == Max(MARGIN, Min(s.paddle_x, s.width - PADDLE_W - MARGIN))
    IN  [s EXCEPT !.paddle_x = px,
                  !.ball_x = DInt(px + PADDLE_W \div 2),
                  !.ball_y = DInt(h - BALL_REST_ABOVE),
                  !.ball_vx = BALL_VX0, !.ball_vy = BALL_VY0,
                  !.launched = FALSE, !.hits = 0, !.flight = 0]

\* A mutant of the rebuild: a brick laid out where a dead brick was in the
\* list stays dead.
RebuiltKeepingDead(s) ==
    LET fresh == BuildBricks(s.brick_labels, s.width, s.height, s.fm)
    IN  [s EXCEPT !.bricks =
                      [i \in 1..Len(fresh) |->
                          IF i <= Len(s.bricks) /\ ~s.bricks[i].alive
                          THEN [fresh[i] EXCEPT !.alive = FALSE] ELSE fresh[i]],
                  !.render_lines = BuildRenderLines(s.brick_labels, s.height, s.fm)]

\* _build_bricks as a step of the widget
Rebuilt(s) ==
    [s EXCEPT !.bricks = BuildBricks(s.brick_labels, s.width, s.height, s.fm),
              !.render_lines = BuildRenderLines(s.brick_labels, s.height, s.fm)]

\* reload_bricks; loaded_ea keeps the address the lines were taken at.
ReloadBricks(s) ==
    ResetBallOnPaddle(Rebuilt(
        [s EXCEPT !.brick_labels =
                      ExtractLineBlocks(Ida[s.source_ea], MAX_BRICK_LINES),
                  !.loaded_ea = s.source_ea]))

\* ------------------------------------------------------------------- tick
\* What a handler leaves for the next one to compare with.
Snapshot(s) ==
    [width |-> s.width, height |-> s.height,
     paddle_x |-> s.paddle_x, ball_x |-> s.ball_x, ball_y |-> s.ball_y,
     ball_vx |-> s.ball_vx, ball_vy |-> s.ball_vy,
     left_pressed |-> s.left_pressed, right_pressed |-> s.right_pressed,
     launched |-> s.launched, game_over |-> s.game_over,
     score |-> s.score, lives |-> s.lives,
     bricks |-> s.bricks, flight |-> s.flight,
     alive |-> {i \in 1..Len(s.bricks) : s.bricks[i].alive}]

\* A mutant of the paddle's move: with both flags set the paddle goes left.
PaddleMovedLeftFirst(s) ==
    LET w == Max(MIN_W, s.width)
        x1 == IF s.left_pressed THEN s.paddle_x - PADDLE_SPEED
              ELSE IF s.right_pressed THEN s.paddle_x + PADDLE_SPEED
              ELSE s.paddle_x
    IN  [s EXCEPT !.paddle_x = Max(MARGIN, Min(x1, w - PADDLE_W - MARGIN))]

\* _tick, lines 343-350: the paddle follows the flags and is clamped.
PaddleMoved(s) ==
    LET w == Max(MIN_W, s.width)
        x1 == s.paddle_x - (IF s.left_pressed THEN PADDLE_SPEED ELSE 0)
                         + (IF s.right_pressed THEN PADDLE_SPEED ELSE 0)
    IN  [s EXCEPT !.paddle_x = Max(MARGIN, Min(x1, w - PADDLE_W - MARGIN))]

\* A mutant of the resting ball: it keeps its x and follows the height only.
SlavedInHeight(s) ==
    LET h == Max(MIN_H, s.height)
    IN  [s EXCEPT !.ball_y = DInt(h - BALL_REST_ABOVE)]

\* _tick, lines 352-356: the resting ball follows the paddle.
Slaved(s) ==
    LET h == Max(MIN_H, s.height)
    IN  [s EXCEPT !.ball_x = DInt(s.paddle_x + PADDLE_W \div 2),
                  !.ball_y = DInt(h - BALL_REST_ABOVE)]

\* _tick, lines 362-363
Integrated(s) ==
    [s EXCEPT !.ball_x = DAdd(s.ball_x, s.ball_vx),
              !.ball_y = DAdd(s.ball_y, s.ball_vy),
              !.flight = s.flight + 1]

\* _tick, lines 365-373: three tests in turn, each on the ball as the
\* one before left it.
LeftWall(s) ==
    IF DLe(DSub(s.ball_x, BALL_RADIUS), DZero)
    THEN [s EXCEPT !.ball_x = BALL_RADIUS, !.ball_vx = DNeg(s.ball_vx)] ELSE s

\* A mutant of the right wall: the velocity turns, the ball is left where it
\* is.
RightWallTurnOnly(s) ==
    LET w == Max(MIN_W, s.width)
    IN  IF DLe(DInt(w), DAdd(s.ball_x, BALL_RADIUS))
        THEN [s EXCEPT !.ball_vx = DNeg(s.ball_vx)] ELSE s

RightWall(s) ==
    LET w == Max(MIN_W, s.width)
    IN  IF DLe(DInt(w), DAdd(s.ball_x, BALL_RADIUS))
        THEN [s EXCEPT !.ball_x = DInt(w - BALL_R), !.ball_vx = DNeg(s.ball_vx)]
        ELSE s

\* A mutant of the top wall: the ball is put back, its velocity kept.
TopWallNoFlip(s) ==
    IF DLe(DSub(s.ball_y, BALL_RADIUS), DZero)
    THEN [s EXCEPT !.ball_y = BALL_RADIUS] ELSE s

TopWall(s) ==
    IF DLe(DSub(s.ball_y, BALL_RADIUS), DZero)
    THEN [s EXCEPT !.ball_y = BALL_RADIUS, !.ball_vy = DNeg(s.ball_vy)] ELSE s

WallsResolved(s) == TopWall(RightWall(LeftWall(s)))

\* A mutant of the paddle collision: the ball is sent up with the vx it
\* came with.
PaddleResolvedStraight(s) ==
    LET h == Max(MIN_H, s.height)
    IN  IF RectIntersects(BallRect(s), PaddleRect(s, h)) /\ DLt(DZero, s.ball_vy)
        THEN [s EXCEPT !.ball_y = DInt(h - PADDLE_ABOVE - BALL_R),
                       !.ball_vy = DNeg(DAbs(s.ball_vy)),
                       !.hits = s.hits + 1]
        ELSE s

\* _tick, lines 378-379: hit = (ball_x - paddle_x) / paddle_w and the new
\* ball_vx = (hit - 0.5) * 10.0, each step rounded.
Deflection(ball_x, paddle_x) ==
    LET hit == DDivBy(DSub(ball_x, DInt(paddle_x)), 13, 10, 8)
    IN  DMulInt(DSub(hit, DHalf), 10)

\* _tick, lines 375-380
PaddleResolved(s) ==
    LET h == Max(MIN_H, s.height)
    IN  IF RectIntersects(BallRect(s), PaddleRect(s, h)) /\ DLt(DZero, s.ball_vy)
        THEN [s EXCEPT !.ball_y = DInt(h - PADDLE_ABOVE - BALL_R),
                       !.ball_vy = DNeg(DAbs(s.ball_vy)),
                       !.ball_vx = Deflection(s.ball_x, s.paddle_x),
                       !.hits = s.hits + 1]
        ELSE s

\* The alive bricks the ball's box overlaps, by position in the list.
Overlapped(s) ==
    LET brect == WholeEdges(BallRect(s))
    IN  {i \in 1..Len(s.bricks) : s.bricks[i].alive /\ MeetsBrick(brect, s.bricks[i])}

\* A mutant of the brick scan: the last overlapped brick goes, not the first.
BricksResolvedLast(s) ==
    LET o == Overlapped(s)
    IN  IF o = {} THEN s
        ELSE LET k == CHOOSE i \in o : \A j \in o : i >= j
             IN  [s EXCEPT !.bricks[k].alive = FALSE,
                           !.score = s.score + BRICK_SCORE,
                           !.ball_vy = DNeg(s.ball_vy)]

\* _tick, lines 382-388: the first alive brick the ball's box overlaps dies.
BricksResolved(s) ==
    LET o == Overlapped(s)
    IN  IF o = {} THEN s
        ELSE LET k == CHOOSE i \in o : \A j \in o : i <= j
             IN  [s EXCEPT !.bricks[k].alive = FALSE,
                           !.score = s.score + BRICK_SCORE,
                           !.ball_vy = DNeg(s.ball_vy)]

\* A mutant of the level clear: the bricks are laid out again, the ball stays
\* in flight.
LevelClearedRebuildOnly(s) ==
    IF Len(s.bricks) > 0 /\ \A i \in 1..Len(s.bricks) : ~s.bricks[i].alive
    THEN Rebuilt(s) ELSE s

\* _tick, lines 390-391
LevelCleared(s) ==
    IF Len(s.bricks) > 0 /\ \A i \in 1..Len(s.bricks) : ~s.bricks[i].alive
    THEN ReloadBricks(s) ELSE s

\* A mutant of the bottom check: the game ends one ball later.
BottomCheckedExtraLife(s) ==
    LET h == Max(MIN_H, s.height)
    IN  IF DLt(DInt(h), DSub(s.ball_y, BALL_RADIUS))
        THEN IF s.lives - 1 < 0
             THEN [s EXCEPT !.lives = s.lives - 1, !.game_over = TRUE,
                            !.launched = FALSE]
             ELSE ResetBallOnPaddle([s EXCEPT !.lives = s.lives - 1])
        ELSE s

\* _tick, lines 393-399
BottomChecked(s) ==
    LET h == Max(MIN_H, s.height)
    IN  IF DLt(DInt(h), DSub(s.ball_y, BALL_RADIUS))
        THEN IF s.lives - 1 <= 0
             THEN [s EXCEPT !.lives = s.lives - 1, !.game_over = TRUE,
                            !.launched = FALSE]
             ELSE ResetBallOnPaddle([s EXCEPT !.lives = s.lives - 1])
        ELSE s

\* A mutant of _tick: the early return of the game over is missing.
TickOfThroughGameOver(s) ==
    LET p == PaddleMoved(s)
    IN  IF ~p.launched /\ ~p.game_over THEN Slaved(p)
        ELSE BottomChecked(LevelCleared(BricksResolved(
                 PaddleResolved(WallsResolved(Integrated(p))))))

\* _tick
TickOf(s) ==
    LET p == PaddleMoved(s)
    IN  IF ~p.launched /\ ~p.game_over THEN Slaved(p)
        ELSE IF p.game_over THEN p
        ELSE BottomChecked(LevelCleared(BricksResolved(
                 PaddleResolved(WallsResolved(Integrated(p))))))

\* ------------------------------------------------------------ construction
\* CodeBreakWidget.__init__ and _init_state: setMinimumSize(800, 520) grows
\* the new widget to that size and the timer is started (timer tells whether
\* it is active), then the fields are set and reload_bricks runs.
Constructed(ea, f) ==
    ReloadBricks(
        [width |-> WIDGET_MIN_W, height |-> WIDGET_MIN_H, fm |-> f,
         source_ea |-> ea, loaded_ea |-> ea, timer |-> TRUE,
         paddle_x |-> PADDLE_X0, ball_x |-> DInt(BALL_X0), ball_y |-> DInt(BALL_Y0),
         ball_vx |-> BALL_VX0, ball_vy |-> BALL_VY0,
         left_pressed |-> FALSE, right_pressed |-> FALSE,
         launched |-> FALSE, game_over |-> FALSE,
         score |-> 0, lives |-> START_LIVES,
         brick_labels |-> <<>>, bricks |-> <<>>, render_lines |-> <<>>,
         hits |-> 0, flight |-> 0])

NoRotation == [items |-> <<>>, anchor_idx |-> 0, limit |-> 0, applied |-> FALSE]

NoLayout == [text |-> <<>>, narrow |-> 0, wide |-> 0, applied |-> FALSE]

NoBricks == [narrow |-> <<>>, wide |-> <<>>]

\* The forms after the plugin's first run: the form made by run is open,
\* the plugin's _form is that form ("game"; "other" for another open form,
\* "none" for None), and no other form is open.
OneForm == [open |-> TRUE, plugin |-> "game", others |-> 0]

InitGame(eas) ==
    /\ \E ea \in eas, f \in Fonts :
          /\ widget = Constructed(ea, f)
          /\ last = [op |-> "init", pre |-> Snapshot(Constructed(ea, f))]
    /\ form = OneForm
    /\ launches = 0
    /\ events = 0
    /\ rot_in = NoRotation
    /\ rot_out = <<>>
    /\ lay_in = NoLayout
    /\ lay_out = NoBricks

\* --------------------------------------------------------------- handlers
\* Each handler takes the environment it runs in, a record env:
\*   flight     ticks of one flight followed,
\*   events     key presses and releases other than Space, presses of N,
\*              plugin runs and terms, calls of set_source_ea, resizes and
\*              closes followed,
\*   launches   launches followed,
\*   keys       the keys other than Space and N the user presses,
\*   in_flight  whether the user touches these keys while the ball flies,
\*   eas        the addresses the user goes to,
\*   sizes      the sizes the user gives the widget.
\*
\* The timer's timeout, while the timer is active: one _tick.  The model
\* follows a flight for env.flight ticks and MaxPaddleHits deflections.
Tick(env) ==
    /\ widget.timer
    /\ widget' = TickOf(widget)
    /\ widget'.flight <= env.flight
    /\ widget'.hits <= MaxPaddleHits
    /\ last' = [op |-> "tick", pre |-> Snapshot(widget)]
    /\ UNCHANGED <<form, launches, events, rotVars, layVars>>

\* A mutant of the key handler: Space launches whether or not the game is
\* over.
KeyPressedAnyLaunch(s, k) ==
    IF k \in {"Left", "A"} THEN [s EXCEPT !.left_pressed = TRUE]
    ELSE IF k \in {"Right", "D"} THEN [s EXCEPT !.right_pressed = TRUE]
    ELSE IF k = "Space" THEN [s EXCEPT !.launched = TRUE]
    ELSE IF k = "R"
         THEN ReloadBricks([s EXCEPT !.score = 0, !.lives = START_LIVES,
                                     !.game_over = FALSE])
    ELSE s

\* A mutant of the key handler: R leaves the lives as they are.
KeyPressedKeepingLives(s, k) ==
    IF k \in {"Left", "A"} THEN [s EXCEPT !.left_pressed = TRUE]
    ELSE IF k \in {"Right", "D"} THEN [s EXCEPT !.right_pressed = TRUE]
    ELSE IF k = "Space" /\ ~s.game_over THEN [s EXCEPT !.launched = TRUE]
    ELSE IF k = "R"
         THEN ReloadBricks([s EXCEPT !.score = 0, !.game_over = FALSE])
    ELSE s

\* keyPressEvent, as a step of the widget
KeyPressed(s, k) ==
    IF k \in {"Left", "A"} THEN [s EXCEPT !.left_pressed = TRUE]
    ELSE IF k \in {"Right", "D"} THEN [s EXCEPT !.right_pressed = TRUE]
    ELSE IF k = "Space" /\ ~s.game_over THEN [s EXCEPT !.launched = TRUE]
    ELSE IF k = "R"
         THEN ReloadBricks([s EXCEPT !.score = 0, !.lives = START_LIVES,
                                     !.game_over = FALSE])
    ELSE s

\* keyReleaseEvent, as a step of the widget
KeyReleased(s, k) ==
    IF k \in {"Left", "A"} THEN [s EXCEPT !.left_pressed = FALSE]
    ELSE IF k \in {"Right", "D"} THEN [s EXCEPT !.right_pressed = FALSE]
    ELSE s

\* keyPressEvent for the move keys and R (A and D take the branches of Left
\* and Right).
KeyPress(env) ==
    \E k \in env.keys :
        /\ form.open
        /\ events < env.events
        /\ env.in_flight \/ ~widget.launched
        /\ widget' = KeyPressed(widget, k)
        /\ last' = [op |-> k, pre |-> Snapshot(widget)]
        /\ events' = events + 1
        /\ UNCHANGED <<form, launches, rotVars, layVars>>

\* keyPressEvent for Space: the launch command.  While the ball is in play
\* or the game is over the key changes nothing, and the step stutters.
Launch(env) ==
    /\ form.open
    /\ widget.launched \/ widget.game_over \/ launches < env.launches
    /\ widget' = KeyPressed(widget, "Space")
    /\ IF widget' = widget
       THEN UNCHANGED <<last, launches>>
       ELSE /\ last' = [op |-> "Space", pre |-> Snapshot(widget)]
            /\ launches' = launches + 1
    /\ UNCHANGED <<form, events, rotVars, layVars>>

\* keyPressEvent for N: the lines are taken from where the user now is.
RefreshSource(env) ==
    \E ea \in env.eas :
        /\ form.open
        /\ events < env.events
        /\ widget' = ReloadBricks([widget EXCEPT !.source_ea = ea])
        /\ last' = [op |-> "N", pre |-> Snapshot(widget)]
        /\ events' = events + 1
        /\ UNCHANGED <<form, launches, rotVars, layVars>>

\* keyReleaseEvent
KeyRelease(env) ==
    \E k \in env.keys \cap {"Left", "Right"} :
        /\ form.open
        /\ events < env.events
        /\ env.in_flight \/ ~widget.launched
        /\ widget' = KeyReleased(widget, k)
        /\ last' = [op |-> "release", pre |-> Snapshot(widget)]
        /\ events' = events + 1
        /\ UNCHANGED <<form, launches, rotVars, layVars>>

\* resizeEvent: the widget has its new size, the bricks are laid out again.
Resize(env) ==
    \E sz \in env.sizes :
        /\ form.open
        /\ events < env.events
        /\ <<widget.width, widget.height>> # sz
        /\ widget' = Rebuilt([widget EXCEPT !.width = sz[1], !.height = sz[2]])
        /\ last' = [op |-> "resize", pre |-> Snapshot(widget)]
        /\ events' = events + 1
        /\ UNCHANGED <<form, launches, rotVars, layVars>>

\* CodeBreakForm.set_source_ea, as a step of the form's game: the game takes
\* the address, and reloads when reload_game is set.
SetSourceEaOf(s, ea, reload_game) ==
    IF reload_game THEN ReloadBricks([s EXCEPT !.source_ea = ea])
    ELSE [s EXCEPT !.source_ea = ea]

\* CodeBreakForm.set_source_ea called on the plugin's form.
SetSourceEa(env) ==
    \E ea \in env.eas, reload_game \in BOOLEAN :
        /\ form.open
        /\ events < env.events
        /\ widget' = SetSourceEaOf(widget, ea, reload_game)
        /\ last' = [op |-> IF reload_game THEN "set_source_ea, reload"
                           ELSE "set_source_ea",
                    pre |-> Snapshot(widget)]
        /\ events' = events + 1
        /\ UNCHANGED <<form, launches, rotVars, layVars>>

\* CodeBreakPlugin.run with the screen at ea.  A form the plugin holds takes
\* the address and reloads its game.  Without one a new form is made and
\* shown, and its OnCreate builds a new widget: when the form followed was
\* closed the new widget is followed and its history starts here; when it is
\* still open (the plugin forgot it in term) either it stays the one
\* followed and the new form is another one, or the new one is followed.
Run(env) ==
    \E ea \in env.eas, follow \in BOOLEAN :
        /\ events < env.events
        /\ follow \/ (form.plugin = "none" /\ form.open)
        /\ widget' = IF form.plugin = "game" THEN SetSourceEaOf(widget, ea, TRUE)
                     ELSE IF form.plugin = "none" /\ follow
                     THEN Constructed(ea, widget.fm)
                     ELSE widget
        /\ form' = IF form.plugin # "none" THEN form
                   ELSE IF follow
                   THEN [open |-> TRUE, plugin |-> "game",
                         others |-> form.others + (IF form.open THEN 1 ELSE 0)]
                   ELSE [form EXCEPT !.plugin = "other", !.others = @ + 1]
        /\ last' = IF form.plugin = "none" /\ follow
                   THEN [op |-> "init", pre |-> Snapshot(widget')]
                   ELSE [op |-> IF form.plugin = "game" THEN "run"
                                ELSE "run, other",
                         pre |-> Snapshot(widget)]
        /\ events' = events + 1
        /\ UNCHANGED <<launches, rotVars, layVars>>

\* CodeBreakWidget.closeEvent: the timer is stopped.
CloseEvent(env) ==
    /\ form.open
    /\ events < env.events
    /\ widget' = [widget EXCEPT !.timer = FALSE]
    /\ last' = [op |-> "closeEvent", pre |-> Snapshot(widget)]
    /\ events' = events + 1
    /\ UNCHANGED <<form, launches, rotVars, layVars>>

\* CodeBreakForm.OnClose of the form followed: the timer is stopped and the
\* game given up, and the plugin's _on_form_close sets _form to None,
\* whichever form it held.
OnClose(env) ==
    /\ form.open
    /\ events < env.events
    /\ widget' = [widget EXCEPT !.timer = FALSE]
    /\ form' = [form EXCEPT !.open = FALSE, !.plugin = "none"]
    /\ last' = [op |-> "OnClose", pre |-> Snapshot(widget)]
    /\ events' = events + 1
    /\ UNCHANGED <<launches, rotVars, layVars>>

\* CodeBreakForm.OnClose of another open form: its game is given up, and the
\* plugin's _on_form_close sets _form to None, whichever form it held.
OnCloseOther(env) ==
    /\ form.others > 0
    /\ events < env.events
    /\ form' = [form EXCEPT !.others = @ - 1, !.plugin = "none"]
    /\ last' = [op |-> "OnClose, other", pre |-> Snapshot(widget)]
    /\ events' = events + 1
    /\ UNCHANGED <<widget, launches, rotVars, layVars>>

\* CodeBreakPlugin.term: the timer of the game of the form the plugin holds
\* is stopped and _form set to None.  The form stays open, and its widget
\* still takes keys and resizes.
Term(env) ==
    /\ events < env.events
    /\ widget' = IF form.plugin = "game" THEN [widget EXCEPT !.timer = FALSE]
                 ELSE widget
    /\ form' = [form EXCEPT !.plugin = "none"]
    /\ last' = [op |-> "term", pre |-> Snapshot(widget)]
    /\ events' = events + 1
    /\ UNCHANGED <<launches, rotVars, layVars>>

\* --------------------------------------------------------- specifications
\* Ticks of one flight (from a launch until the ball rests again) followed.
MaxFlight == 29

\* Key presses and releases other than Space, plugin runs, resizes and
\* closes followed.
MaxEvents == 1

\* Launches followed.
MaxLaunches == 4

\* The game on the function at address 2, the user free to go to address 1;
\* Right and R are pressed while the ball rests or the game is over, and
\* Right pressed then stays held through the flight that follows.
EnvPlay == [flight |-> MaxFlight, events |-> MaxEvents, launches |-> MaxLaunches,
            keys |-> {"Right", "R"}, in_flight |-> FALSE,
            eas |-> {1, 2}, sizes |-> {<<800, 520>>, <<1000, 530>>}]

InitPlay == InitGame({2})

\* The handlers of the game and of its form: the plugin is run again,
\* with the form open or after the form was closed.
NextPlay ==
    \/ Tick(EnvPlay)
    \/ KeyPress(EnvPlay)
    \/ Launch(EnvPlay)
    \/ RefreshSource(EnvPlay)
    \/ KeyRelease(EnvPlay)
    \/ Resize(EnvPlay)
    \/ Run(EnvPlay)
    \/ OnClose(EnvPlay)

SpecPlay == InitPlay /\ [][NextPlay]_vars

\* ---------------------------------------------- what a tick started from
\* The last handler was _tick.
TickDone == last.op = "tick"

\* The last handler was _tick and it found the ball in play.
InPlayTick == TickDone /\ last.pre.launched /\ ~last.pre.game_over

\* w and h of that _tick.
ViewW == Max(MIN_W, last.pre.width)

ViewH == Max(MIN_H, last.pre.height)

\* The ball of the state the tick started from, moved by its velocity.
MovedX == DAdd(last.pre.ball_x, last.pre.ball_vx)

MovedY == DAdd(last.pre.ball_y, last.pre.ball_vy)

\* The moved ball put back inside the left, right and top walls.
ScanX ==
    IF DLe(DSub(MovedX, BALL_RADIUS), DZero) THEN BALL_RADIUS
    ELSE IF DLe(DInt(ViewW), DAdd(MovedX, BALL_RADIUS)) THEN DInt(ViewW - BALL_R)
    ELSE MovedX

ScanY == IF DLe(DSub(MovedY, BALL_RADIUS), DZero) THEN BALL_RADIUS ELSE MovedY

\* The ball's box when the tick tested the paddle: the box of radius 7
\* about that ball.
WallBox ==
    Rect(DSub(ScanX, BALL_RADIUS), DSub(ScanY, BALL_RADIUS), BALL_DIAMETER,
         BALL_DIAMETER)

\* The moved ball touches or crosses a wall.
AtLeftWall == InPlayTick /\ DLe(DSub(MovedX, BALL_RADIUS), DZero)

AtRightWall == InPlayTick /\ DLe(DInt(ViewW), DAdd(MovedX, BALL_RADIUS))

AtTopWall == InPlayTick /\ DLe(DSub(MovedY, BALL_RADIUS), DZero)

\* The paddle of the state the tick started from after lines 346-350: moved
\* by the flags, then clamped to the width the tick saw.
PaddleAfterInput ==
    LET x1 == last.pre.paddle_x
                  - (IF last.pre.left_pressed THEN PADDLE_SPEED ELSE 0)
                  + (IF last.pre.right_pressed THEN PADDLE_SPEED ELSE 0)
    IN  Max(MARGIN, Min(x1, ViewW - PADDLE_W - MARGIN))

\* The ball, back inside the walls, meets the paddle while moving down: the
\* tick sets vx from where the ball met the paddle.
MetPaddle ==
    /\ InPlayTick
    /\ DLt(DZero, IF AtTopWall THEN DNeg(last.pre.ball_vy) ELSE last.pre.ball_vy)
    /\ RectIntersects(WallBox, Rect(DInt(PaddleAfterInput), DInt(ViewH - PADDLE_ABOVE),
                                    DInt(PADDLE_W), DInt(PADDLE_H)))

\* The ball's height when the tick looked at the bricks: the paddle has put
\* a ball it met on its top.
BrickScanY == IF MetPaddle THEN DInt(ViewH - PADDLE_ABOVE - BALL_R) ELSE ScanY

\* brect of that tick: the ball's box when the tick looked at the bricks.
ScanBox ==
    Rect(DSub(ScanX, BALL_RADIUS), DSub(BrickScanY, BALL_RADIUS), BALL_DIAMETER,
         BALL_DIAMETER)

\* The bricks alive before the tick that this box overlaps.
ScanOverlap ==
    LET box == WholeEdges(ScanBox)
    IN  {i \in last.pre.alive : MeetsBrick(box, last.pre.bricks[i])}

\* The first of them in the order of the brick list.
FirstOverlap ==
    LET o == ScanOverlap
    IN  CHOOSE i \in o : \A j \in o : i <= j

AliveNow == {i \in 1..Len(widget.bricks) : widget.bricks[i].alive}

\* The tick destroyed the last alive brick.
ClearTick ==
    /\ InPlayTick
    /\ Cardinality(last.pre.alive) = 1
    /\ ScanOverlap = last.pre.alive

\* The tick ended with the ball's top edge below the viewport.
Fell == InPlayTick /\ DLt(DInt(ViewH), DSub(MovedY, BALL_RADIUS))

\* The ball rests centred on the paddle with the launch velocity.
OnPaddle ==
    /\ ~widget.launched
    /\ widget.ball_x = DInt(widget.paddle_x + PADDLE_W \div 2)
    /\ widget.ball_y = DInt(Max(MIN_RESET_H, widget.height) - BALL_REST_ABOVE)
    /\ widget.ball_vx = BALL_VX0
    /\ widget.ball_vy = BALL_VY0

\* C3: in a single _tick at most one brick goes from alive to dead; when the
\* ball's box overlaps several alive bricks the one destroyed is the first in
\* the order of the brick list; the score rises by exactly 10 in a tick that
\* destroys a brick and by 0 in every other tick.
C3_CollisionExclusivity ==
    TickDone =>
        LET o == IF InPlayTick THEN ScanOverlap ELSE {}
        IN  IF o # {}
            THEN /\ widget.score = last.pre.score + 10
                 /\ IF o = last.pre.alive /\ Cardinality(o) = 1
                    THEN AliveNow = 1..Len(widget.bricks)
                    ELSE /\ AliveNow = last.pre.alive \ {FirstOverlap}
                         /\ Len(widget.bricks) = Len(last.pre.bricks)
            ELSE /\ widget.score = last.pre.score
                 /\ AliveNow = last.pre.alive
                 /\ Len(widget.bricks) = Len(last.pre.bricks)

\* A tick in which the ball's box overlapped two alive bricks and only the
\* first of them died.
C3_Witness ==
    /\ InPlayTick
    /\ Cardinality(ScanOverlap) >= 2
    /\ AliveNow = last.pre.alive \ {FirstOverlap}
    /\ widget.score = last.pre.score + 10

\* C5: a tick with the ball in play that ends with the ball's top edge below
\* the viewport takes exactly one life; from lives = 1 it leaves lives = 0,
\* game_over and not launched; from lives 2 or 3 it leaves the game not over,
\* not launched and the ball centred on the paddle; every other tick leaves
\* lives as it was.
C5_LifeLoss ==
    TickDone =>
        IF Fell
        THEN /\ widget.lives = last.pre.lives - 1
             /\ last.pre.lives = 1 =>
                    widget.lives = 0 /\ widget.game_over /\ ~widget.launched
             /\ last.pre.lives \in {2, 3} => ~widget.game_over /\ OnPaddle
        ELSE widget.lives = last.pre.lives

\* The last ball fell: the tick started with one life and ended the game.
C5_Witness ==
    /\ Fell
    /\ last.pre.lives = 1
    /\ widget.lives = 0
    /\ widget.game_over
    /\ ~widget.launched

\* C6: once game_over holds, every step of the game other than a press of R
\* keeps it and keeps launched false; a press of R leaves the game not over
\* and not launched, so the game over state is never left towards a ball in
\* play.
C6_GameOverSticky ==
    [][(form.open /\ widget.game_over) =>
          /\ ~widget.launched
          /\ ~widget'.launched
          /\ widget'.game_over \/ last'.op = "R"]_vars

\* The game was over and the user pressed N: it is still over.
C6_Witness ==
    /\ last.op = "N"
    /\ last.pre.game_over
    /\ widget.game_over
    /\ ~widget.launched

\* C8: a tick that destroys the last alive brick of a non-empty brick set
\* lays the bricks out again from the current source lines, every brick
\* alive, puts the ball back on the paddle, adds the brick's 10 points to the
\* score and leaves lives as they were; hence, as long as nothing but ticks
\* and launches happened, the score at a clear is a multiple of 10 n for n
\* bricks, and before the first clear it is 10 for each dead brick.
C8_LevelClear ==
    /\ ClearTick =>
           /\ widget.bricks =
                  BuildBricks(ExtractLineBlocks(Ida[widget.source_ea], MAX_BRICK_LINES),
                              widget.width, widget.height, widget.fm)
           /\ Len(widget.bricks) > 0
           /\ AliveNow = 1..Len(widget.bricks)
           /\ OnPaddle
           /\ ~widget.game_over
           /\ widget.score = last.pre.score + 10
           /\ widget.lives = last.pre.lives
    /\ (events = 0 /\ Len(widget.bricks) > 0) =>
           widget.score % (10 * Len(widget.bricks)) =
               10 * (Len(widget.bricks) - Cardinality(AliveNow))

\* Three bricks destroyed from score 0: the tick of the third relays the
\* bricks with the score at 30.
C8_Witness ==
    /\ ClearTick
    /\ events = 0
    /\ Len(widget.bricks) = 3
    /\ AliveNow = {1, 2, 3}
    /\ widget.score = 30
    /\ ~widget.launched

\* The last handler was _tick and it found the game over.
GameOverTick == TickDone /\ last.pre.game_over

\* C15: a tick taken while the game is over leaves the ball's position and
\* velocity, score, lives, launched, game_over, the brick set and every
\* brick's alive flag as they were, whatever the input flags are.
C15_NoPhysicsInGameOver ==
    GameOverTick =>
        /\ widget.ball_x = last.pre.ball_x
        /\ widget.ball_y = last.pre.ball_y
        /\ widget.ball_vx = last.pre.ball_vx
        /\ widget.ball_vy = last.pre.ball_vy
        /\ widget.score = last.pre.score
        /\ widget.lives = last.pre.lives
        /\ widget.launched = last.pre.launched
        /\ widget.game_over
        /\ widget.bricks = last.pre.bricks

\* A tick of the game over with a move key held: the paddle moved, the ball
\* stayed where it fell.
C15_Witness ==
    /\ GameOverTick
    /\ last.pre.left_pressed \/ last.pre.right_pressed
    /\ widget.paddle_x # last.pre.paddle_x
    /\ widget.ball_x = last.pre.ball_x
    /\ widget.ball_y = last.pre.ball_y
    /\ DLt(DInt(ViewH), DSub(widget.ball_y, BALL_RADIUS))

\* The last handler laid the bricks out again: resizeEvent, or reload_bricks
\* from a restart, a refresh, a plugin re-run, a set_source_ea that reloads
\* or a level clear.
RebuildDone ==
    last.op \in {"resize", "R", "N", "run", "set_source_ea, reload"} \/ ClearTick

\* C18: after a resize the brick set is the layout of the current
\* brick_labels for the new size with every brick alive, and score, lives,
\* game_over, launched, the ball's position and velocity and paddle_x are as
\* before; a handler that does not lay the bricks out again leaves the brick
\* set as it was but for alive flags, and makes no dead brick alive.
C18_ResizeRebuilds ==
    /\ last.op = "resize" =>
           /\ widget.bricks =
                  BuildBricks(widget.brick_labels, widget.width, widget.height,
                              widget.fm)
           /\ AliveNow = 1..Len(widget.bricks)
           /\ widget.score = last.pre.score
           /\ widget.lives = last.pre.lives
           /\ widget.game_over = last.pre.game_over
           /\ widget.launched = last.pre.launched
           /\ widget.ball_x = last.pre.ball_x
           /\ widget.ball_y = last.pre.ball_y
           /\ widget.ball_vx = last.pre.ball_vx
           /\ widget.ball_vy = last.pre.ball_vy
           /\ widget.paddle_x = last.pre.paddle_x
    /\ (last.op # "init" /\ ~RebuildDone) =>
           /\ Len(widget.bricks) = Len(last.pre.bricks)
           /\ \A i \in 1..Len(widget.bricks) :
                  [widget.bricks[i] EXCEPT !.alive = TRUE] = last.pre.bricks[i]
                  \/ widget.bricks[i] = last.pre.bricks[i]
           /\ AliveNow \subseteq last.pre.alive

\* A resize after a brick was destroyed: the brick is back, the ball flies
\* on and the score is kept.
C18_Witness ==
    /\ last.op = "resize"
    /\ last.pre.alive # 1..Len(last.pre.bricks)
    /\ Len(widget.bricks) > 0
    /\ AliveNow = 1..Len(widget.bricks)
    /\ widget.launched
    /\ widget.score = last.pre.score
    /\ widget.score > 0

\* C20: in every reachable state lives is between 0 and 3, the game is over
\* exactly when lives is 0, a game that is over has no ball launched, and
\* the score is a non-negative multiple of 10; no handler lowers the score
\* but the restart, which sets it to 0.
C20_GameStateInvariant ==
    /\ widget.lives >= 0
    /\ widget.lives <= START_LIVES
    /\ widget.game_over <=> widget.lives = 0
    /\ widget.game_over => ~widget.launched
    /\ widget.score >= 0
    /\ widget.score % BRICK_SCORE = 0
    /\ IF last.op = "R" THEN widget.score = 0
       ELSE widget.score >= last.pre.score

\* A game lost with points on the board and restarted: three lives, score 0.
C20_Witness ==
    /\ last.op = "R"
    /\ last.pre.game_over
    /\ last.pre.lives = 0
    /\ last.pre.score > 0
    /\ widget.score = 0
    /\ widget.lives = START_LIVES
    /\ ~widget.game_over

\* ------------------------------------------------- the game on any source
\* Ticks of one flight followed where the sources are what matters.
MaxShortFlight == 2

\* Key presses, plugin runs, resizes and closes followed there: a close and
\* the run after it.
MaxSourceEvents == 2

\* The plugin started at any of the addresses, the user free to go to any
\* other, to restart, to resize and to close the form and run the plugin
\* again; the paddle is left alone.
EnvSources == [flight |-> MaxShortFlight, events |-> MaxSourceEvents,
               launches |-> MaxLaunches,
               keys |-> {"R"}, in_flight |-> TRUE,
               eas |-> 1..Len(Ida), sizes |-> {<<800, 520>>, <<1000, 530>>}]

InitSources == InitGame(1..Len(Ida))

\* The handlers of the widget and of its form and the plugin's run, but
\* the release of a move key.
NextSources ==
    \/ Tick(EnvSources)
    \/ KeyPress(EnvSources)
    \/ Launch(EnvSources)
    \/ RefreshSource(EnvSources)
    \/ Resize(EnvSources)
    \/ SetSourceEa(EnvSources)
    \/ Run(EnvSources)
    \/ CloseEvent(EnvSources)
    \/ OnClose(EnvSources)

SpecSources == InitSources /\ [][NextSources]_vars

\* Both collectors come back empty at the address the widget last reloaded
\* at.
NoSourceLines ==
    /\ Len(CollectDecompilerLines(Ida[widget.loaded_ea]).lines) = 0
    /\ Len(CollectDisasmLines(Ida[widget.loaded_ea]).lines) = 0

\* C9: whenever both collectors supply no lines the widget's brick_labels are
\* the five built-in lines, numbered 1..5 and in that order; after every
\* reload brick_labels is non-empty and has at most MAX_BRICK_LINES entries.
C9_EmptyInputFallback ==
    /\ NoSourceLines =>
           /\ Len(widget.brick_labels) = 5
           /\ \A i \in 1..5 :
                  /\ widget.brick_labels[i].line_no = i
                  /\ widget.brick_labels[i].text = Placeholder[i].text
    /\ Len(widget.brick_labels) >= 1
    /\ Len(widget.brick_labels) <= MAX_BRICK_LINES

\* The user went from a function to a place without decompiler and function
\* and pressed N: the game shows the built-in lines.
C9_Witness ==
    /\ last.op = "N"
    /\ Len(last.pre.bricks) # Len(widget.bricks)
    /\ NoSourceLines
    /\ Len(widget.brick_labels) = 5
    /\ Len(widget.bricks) > 0

\* The lines of brick_labels that _build_bricks lays out, by position.
VisibleLines ==
    1..Min(Len(widget.brick_labels),
           MaxVisibleLines(Max(MIN_H, widget.height), widget.fm))

\* The first token of line i is wider than the code area, from the left
\* margin to code_right = w - 18.
TooWide(i) ==
    LET parts == LineSplit(widget.brick_labels[i].text)
    IN  /\ Len(parts) > 0
        /\ ~parts[1].ws
        /\ Max(1, HorizontalAdvance(widget.fm, parts[1])) >
               (Max(MIN_W, widget.width) - CODE_RIGHT_PAD) - CODE_LEFT

\* The bricks laid out for line i, by position in the brick list.
BricksOfLine(i) ==
    {j \in 1..Len(widget.bricks) :
        widget.bricks[j].line_no = widget.brick_labels[i].line_no}

\* C11: every visible line whose first token is wider than the code area has
\* exactly one brick, the brick of that token at the left margin, and no
\* brick for any later token.
C11_TooWideToken ==
    \A i \in VisibleLines :
        TooWide(i) =>
            /\ Cardinality(BricksOfLine(i)) = 1
            /\ \A j \in BricksOfLine(i) :
                   /\ widget.bricks[j].x = CODE_LEFT
                   /\ widget.bricks[j].label =
                          LineSplit(widget.brick_labels[i].text)[1].n

\* ------------------------------------------------- the game lost and restarted
\* Key presses other than Space followed up to a restart.
MaxRestartEvents == 2

\* The game on the function at address 2; the user may go to the function at
\* address 3, whose lines are all wider than the code area, press N and R.
EnvRestart == [flight |-> MaxFlight, events |-> MaxRestartEvents,
               launches |-> MaxLaunches,
               keys |-> {"R"}, in_flight |-> TRUE,
               eas |-> {3}, sizes |-> {<<800, 520>>}]

InitRestart == InitGame({2})

NextRestart ==
    \/ Tick(EnvRestart)
    \/ KeyPress(EnvRestart)
    \/ Launch(EnvRestart)
    \/ RefreshSource(EnvRestart)

SpecRestart == InitRestart /\ [][NextRestart]_vars

\* C7: a press of R while the game is over leaves score 0, three lives, the
\* game not over, the ball not launched and a freshly built brick set that
\* is non-empty with every brick alive.
C7_Restart ==
    (last.op = "R" /\ last.pre.game_over) =>
        /\ widget.score = 0
        /\ widget.lives = START_LIVES
        /\ ~widget.game_over
        /\ ~widget.launched
        /\ Len(widget.bricks) > 0
        /\ AliveNow = 1..Len(widget.bricks)

\* ---------------------------------------------------- the paddle and resizes
\* Key, resize events followed where the paddle and the width are what
\* matters.
MaxResizeEvents == 3

\* The user holds Right and resizes the widget between 800 and 1000 pixels.
EnvResize == [flight |-> MaxShortFlight, events |-> MaxResizeEvents,
              launches |-> MaxLaunches,
              keys |-> {"Right"}, in_flight |-> TRUE,
              eas |-> {2}, sizes |-> {<<800, 520>>, <<1000, 530>>}]

InitResize == InitGame({2})

NextResize ==
    \/ Tick(EnvResize)
    \/ KeyPress(EnvResize)
    \/ KeyRelease(EnvResize)
    \/ Launch(EnvResize)
    \/ Resize(EnvResize)

SpecResize == InitResize /\ [][NextResize]_vars

\* C4: in every reachable state the paddle lies between the margin and the
\* widget's current width less the paddle's width and the margin.
C4_PaddleClamp ==
    /\ widget.paddle_x >= MARGIN
    /\ widget.paddle_x <= widget.width - PADDLE_W - MARGIN

\* The last handler was _tick and it found the ball waiting for the launch.
WaitingTick == TickDone /\ ~last.pre.launched /\ ~last.pre.game_over

\* C13: after a tick taken while the ball waits for the launch the ball is
\* at paddle_x + paddle_w / 2 and h - 42, paddle_x being the paddle after
\* input and clamp; velocity, score, lives, game_over, launched and every
\* brick's alive flag are as before the tick.
C13_BallSlaved ==
    WaitingTick =>
        /\ widget.paddle_x = PaddleAfterInput
        /\ widget.ball_x = DInt(widget.paddle_x + PADDLE_W \div 2)
        /\ widget.ball_y = DInt(ViewH - BALL_REST_ABOVE)
        /\ widget.ball_vx = last.pre.ball_vx
        /\ widget.ball_vy = last.pre.ball_vy
        /\ widget.score = last.pre.score
        /\ widget.lives = last.pre.lives
        /\ ~widget.game_over
        /\ ~widget.launched
        /\ widget.bricks = last.pre.bricks

\* A waiting tick after the widget was narrowed with the paddle beyond the
\* new right end: the paddle is clamped and the ball is over its middle.
C13_Witness ==
    /\ WaitingTick
    /\ last.pre.paddle_x > ViewW - PADDLE_W - MARGIN
    /\ last.pre.ball_x # widget.ball_x
    /\ widget.paddle_x = ViewW - PADDLE_W - MARGIN
    /\ widget.ball_x = DInt(ViewW - MARGIN - PADDLE_W \div 2)

\* -------------------------------------------------------- the paddle and keys
\* Presses and releases of the move keys followed.
MaxKeyEvents == 3

\* The user presses and releases Left and Right in any order, any number of
\* times between two ticks, and launches; the widget keeps its size.
EnvKeys == [flight |-> MaxShortFlight, events |-> MaxKeyEvents,
            launches |-> MaxLaunches,
            keys |-> {"Left", "Right"}, in_flight |-> TRUE,
            eas |-> {2}, sizes |-> {<<800, 520>>}]

InitKeys == InitGame({2})

NextKeys ==
    \/ Tick(EnvKeys)
    \/ KeyPress(EnvKeys)
    \/ KeyRelease(EnvKeys)
    \/ Launch(EnvKeys)

SpecKeys == InitKeys /\ [][NextKeys]_vars

\* What the flags a tick started from make of the paddle before the clamp.
FlagDisplacement ==
    IF last.pre.left_pressed /\ ~last.pre.right_pressed THEN -PADDLE_SPEED
    ELSE IF last.pre.right_pressed /\ ~last.pre.left_pressed THEN PADDLE_SPEED
    ELSE 0

\* C19: the paddle a tick leaves is the paddle it found moved by -9 when
\* only left_pressed is set, by +9 when only right_pressed is set and by 0
\* otherwise, then clamped, whatever key events came before the tick; a
\* tick moves the paddle by at most paddle_speed, and a press or release of
\* a move key leaves paddle_x as it was.
C19_FlagsSampled ==
    /\ TickDone =>
           /\ widget.paddle_x =
                  Max(MARGIN, Min(last.pre.paddle_x + FlagDisplacement,
                                  ViewW - PADDLE_W - MARGIN))
           /\ widget.paddle_x - last.pre.paddle_x <= PADDLE_SPEED
           /\ last.pre.paddle_x - widget.paddle_x <= PADDLE_SPEED
    /\ last.op \in {"Left", "Right", "release"} =>
           /\ widget.paddle_x = last.pre.paddle_x
           /\ last.op = "Left" => widget.left_pressed
           /\ last.op = "Right" => widget.right_pressed

\* Three key events came before a tick, leaving both flags set: the paddle,
\* away from both ends, stayed where it was.
C19_Witness ==
    /\ TickDone
    /\ events = MaxKeyEvents
    /\ last.pre.left_pressed
    /\ last.pre.right_pressed
    /\ last.pre.paddle_x = PADDLE_X0
    /\ widget.paddle_x = last.pre.paddle_x

\* ------------------------------------------------------------- the launch
\* The game on the function at address 2: the user holds Right, resizes the
\* widget (higher, wider and higher, and back), restarts, goes to address
\* 1 or 6 or back and presses N, and launches; a flight is followed for its
\* first ticks.  A widget 560 pixels high shows the first of the two bricks
\* of address 6, one 600 pixels high shows both.
EnvLaunch == [flight |-> MaxShortFlight, events |-> MaxResizeEvents,
              launches |-> MaxLaunches,
              keys |-> {"Right", "R"}, in_flight |-> TRUE,
              eas |-> {1, 2, 6},
              sizes |-> {<<800, 520>>, <<800, 560>>, <<1000, 600>>}]

InitLaunch == InitGame({2})

NextLaunch ==
    \/ Tick(EnvLaunch)
    \/ KeyPress(EnvLaunch)
    \/ Launch(EnvLaunch)
    \/ RefreshSource(EnvLaunch)
    \/ Resize(EnvLaunch)

SpecLaunch == InitLaunch /\ [][NextLaunch]_vars

\* The last handler was the first _tick of a flight.
FirstFlightTick == InPlayTick /\ last.pre.flight = 0

\* C14 as stated: whenever the ball waits for the launch its velocity is
\* (3.8, -4.6); a launch command leaves the ball launched with that
\* velocity; the first tick of the flight moves the ball by (3.8, -4.6) from
\* where it rested.
C14_LaunchVelocityAnyWidth ==
    /\ (~widget.launched /\ ~widget.game_over) =>
           widget.ball_vx = BALL_VX0 /\ widget.ball_vy = BALL_VY0
    /\ last.op = "Space" =>
           /\ widget.launched
           /\ widget.ball_vx = BALL_VX0 /\ widget.ball_vy = BALL_VY0
    /\ FirstFlightTick =>
           /\ widget.ball_x = DAdd(last.pre.ball_x, BALL_VX0)
           /\ widget.ball_y = DAdd(last.pre.ball_y, BALL_VY0)

\* The first tick of a flight found the moved ball at the right wall.
FirstAtRightWall == FirstFlightTick /\ DLe(DInt(ViewW), DAdd(MovedX, BALL_RADIUS))

\* The first tick of a flight found a brick alive under the ball's box.
FirstHit == FirstFlightTick /\ ScanOverlap # {}

\* The flight started with the ball where the paddle and the height of the
\* widget now put a resting ball.
LaunchedInPlace ==
    /\ FirstFlightTick
    /\ last.pre.paddle_x <= ViewW - PADDLE_W - MARGIN
    /\ last.pre.ball_x = DInt(last.pre.paddle_x + PADDLE_W \div 2)
    /\ last.pre.ball_y = DInt(ViewH - BALL_REST_ABOVE)

\* C14 amended: whenever the ball waits for the launch its velocity is
\* (3.8, -4.6) and a launch command leaves the ball launched with that
\* velocity.  The first tick of the flight moves the ball by (3.8, -4.6)
\* from where it rested, with launched, vx, vy, score and lives unchanged:
\* always when the ball rested where the widget's size puts it, and after
\* a resize except that a moved ball at the right wall is left at
\* ball_x = w - radius with vx = -3.8; a ball that hits a brick adds 10 to
\* the score and ends with vy = 4.6, and when that brick was the last one
\* alive the ball is back on the paddle, not launched; a moved ball whose
\* top edge is below the viewport is taken: a life is lost and the ball is
\* not launched, back on the paddle when a life is left.
C14_LaunchVelocity ==
    /\ (~widget.launched /\ ~widget.game_over) =>
           widget.ball_vx = BALL_VX0 /\ widget.ball_vy = BALL_VY0
    /\ last.op = "Space" =>
           /\ widget.launched
           /\ widget.ball_vx = BALL_VX0 /\ widget.ball_vy = BALL_VY0
    /\ LaunchedInPlace => ~FirstAtRightWall /\ ~FirstHit /\ ~Fell
    /\ FirstFlightTick =>
           /\ widget.score = last.pre.score + (IF FirstHit THEN 10 ELSE 0)
           /\ widget.lives = last.pre.lives - (IF Fell /\ ~ClearTick THEN 1 ELSE 0)
           /\ IF ClearTick THEN OnPaddle
              ELSE IF Fell
              THEN /\ ~widget.launched
                   /\ last.pre.lives > 1 => OnPaddle
              ELSE /\ widget.launched
                   /\ widget.ball_y = DAdd(last.pre.ball_y, BALL_VY0)
                   /\ widget.ball_vy = IF FirstHit THEN DNeg(BALL_VY0) ELSE BALL_VY0
                   /\ widget.ball_x = IF FirstAtRightWall THEN DInt(ViewW - BALL_R)
                                      ELSE DAdd(last.pre.ball_x, BALL_VX0)
                   /\ widget.ball_vx = IF FirstAtRightWall THEN DNeg(BALL_VX0)
                                       ELSE BALL_VX0

\* After a restart the ball was launched from the paddle and the first tick
\* of the flight moved it by (3.8, -4.6).
C14_Witness ==
    /\ LaunchedInPlace
    /\ events > 0
    /\ last.pre.ball_vx = BALL_VX0
    /\ last.pre.ball_vy = BALL_VY0
    /\ widget.ball_x = DAdd(last.pre.ball_x, BALL_VX0)
    /\ widget.ball_y = DAdd(last.pre.ball_y, BALL_VY0)

\* The ball rested where a higher widget had put it, the widget was made
\* lower, and the first tick of the flight took the ball.
C14_WitnessFell ==
    /\ FirstFlightTick
    /\ Fell
    /\ widget.lives = last.pre.lives - 1
    /\ OnPaddle

\* The widget was narrowed after the ball was put on the paddle, and the
\* first tick of the flight left the ball at the right wall.
C14_WitnessWall ==
    /\ FirstAtRightWall
    /\ widget.launched
    /\ widget.ball_x = DInt(ViewW - BALL_R)
    /\ widget.ball_vx = DNeg(BALL_VX0)

\* The widget was made higher after the ball was put on the paddle, and the
\* first tick of the flight hit one of two bricks: the ball flies on,
\* downwards.
C14_WitnessHit ==
    /\ FirstHit
    /\ ~ClearTick
    /\ widget.launched
    /\ widget.score = last.pre.score + 10
    /\ widget.ball_vy = DNeg(BALL_VY0)

\* The same with the only brick alive: the level was cleared and the ball
\* is back on the paddle of the higher widget.
C14_WitnessClear ==
    /\ FirstHit
    /\ ClearTick
    /\ widget.score = last.pre.score + 10
    /\ OnPaddle
    /\ widget.ball_y # DAdd(last.pre.ball_y, BALL_VY0)

\* ------------------------------------------------------ the ball and the walls
\* Ticks of one flight followed where the walls are what matters: enough for
\* a ball deflected at the right end of the paddle to cross the widget.
MaxWallFlight == 165

\* Launches followed for the walls.
MaxWallLaunches == 1

\* The game on the function at address 5: the user moves the paddle to the
\* right before the launch and leaves the keys alone while the ball flies.
EnvWalls == [flight |-> MaxWallFlight, events |-> MaxEvents,
             launches |-> MaxWallLaunches,
             keys |-> {"Right"}, in_flight |-> FALSE,
             eas |-> {5}, sizes |-> {<<800, 520>>}]

InitWalls == InitGame({5})

NextWalls ==
    \/ Tick(EnvWalls)
    \/ KeyPress(EnvWalls)
    \/ Launch(EnvWalls)

SpecWalls == InitWalls /\ [][NextWalls]_vars

\* The tick took a ball that was not the last one: the ball is back on the
\* paddle.
FellWithLivesLeft == Fell /\ last.pre.lives > 1

\* C10 as stated: a tick whose moved ball touches or crosses the left wall
\* ends with ball_x = radius and vx negated, the right wall with
\* ball_x = w - radius and vx negated, the top wall with ball_y = radius and
\* vy negated.
C10_WallReflectionAlways ==
    /\ AtLeftWall => /\ widget.ball_x = BALL_RADIUS
                     /\ widget.ball_vx = DNeg(last.pre.ball_vx)
    /\ AtRightWall => /\ widget.ball_x = DInt(ViewW - BALL_R)
                      /\ widget.ball_vx = DNeg(last.pre.ball_vx)
    /\ AtTopWall => /\ widget.ball_y = BALL_RADIUS
                    /\ widget.ball_vy = DNeg(last.pre.ball_vy)

\* C10 amended: the same, except that in a tick in which the ball also
\* meets the paddle vx is the paddle's deflection
\* ((ball_x - paddle_x) / paddle_w - 0.5) * 10 and not the negation, and in a
\* tick that also takes a ball that is not the last the ball is back on the
\* paddle.
C10_WallReflection ==
    /\ (AtLeftWall /\ ~FellWithLivesLeft) =>
           /\ widget.ball_x = BALL_RADIUS
           /\ widget.ball_vx =
                  IF MetPaddle THEN Deflection(BALL_RADIUS, widget.paddle_x)
                  ELSE DNeg(last.pre.ball_vx)
    /\ (AtRightWall /\ ~FellWithLivesLeft) =>
           /\ widget.ball_x = DInt(ViewW - BALL_R)
           /\ widget.ball_vx =
                  IF MetPaddle
                  THEN Deflection(DInt(ViewW - BALL_R), widget.paddle_x)
                  ELSE DNeg(last.pre.ball_vx)
    /\ ((AtLeftWall \/ AtRightWall) /\ FellWithLivesLeft) => OnPaddle
    /\ AtTopWall => /\ widget.ball_y = BALL_RADIUS
                    /\ widget.ball_vy = DNeg(last.pre.ball_vy)

\* A ball deflected to the left by the paddle reached the left wall and was
\* sent back.
C10_Witness ==
    /\ AtLeftWall
    /\ ~MetPaddle
    /\ DLt(last.pre.ball_vx, DZero)
    /\ widget.ball_x = BALL_RADIUS
    /\ widget.ball_vx = DNeg(last.pre.ball_vx)

\* The same at the right wall and at the top wall.
C10_WitnessRight ==
    /\ AtRightWall
    /\ ~MetPaddle
    /\ widget.ball_x = DInt(ViewW - BALL_R)
    /\ widget.ball_vx = DNeg(last.pre.ball_vx)

C10_WitnessTop ==
    /\ AtTopWall
    /\ widget.ball_y = BALL_RADIUS
    /\ widget.ball_vy = DNeg(last.pre.ball_vy)

\* ball_x - paddle_x when the tick tested the paddle: the centre of the
\* ball from the paddle's left end.
HitOffset == DSub(ScanX, DInt(PaddleAfterInput))

\* hit of that tick: (ball_x - paddle_x) / paddle_w.
HitRatio == DDivBy(HitOffset, 13, 10, 8)

\* 5.54, a bound of the deflected vx: 5 + 7/13 is 5.538...
VX_BOUND == DDivBy(DInt(554), 10, 10, 7)

\* C16 as stated: in a tick in which the paddle collision fires,
\* hit = (ball_x - paddle_x) / paddle_w lies in [0, 1], the new vx lies in
\* [-5, 5], and the tick ends with vy < 0 and ball_y = h - 30 - radius.
C16_DeflectionInUnitRange ==
    MetPaddle =>
        /\ DLe(DZero, HitRatio)
        /\ DLe(HitRatio, DInt(1))
        /\ DLe(DInt(-5), widget.ball_vx)
        /\ DLe(widget.ball_vx, DInt(5))
        /\ DLt(widget.ball_vy, DZero)
        /\ widget.ball_y = DInt(ViewH - PADDLE_ABOVE - BALL_R)

\* C16 amended: in such a tick the ball's centre is less than a radius
\* beyond either end of the paddle, -7 < ball_x - paddle_x < 137, the new
\* vx is ((ball_x - paddle_x) / paddle_w - 0.5) * 10 with |vx| < 5.54, and
\* the tick ends with vy < 0 and ball_y = h - 30 - radius.
C16_DeflectionRange ==
    MetPaddle =>
        /\ DLt(DInt(-BALL_R), HitOffset)
        /\ DLt(HitOffset, DInt(PADDLE_W + BALL_R))
        /\ widget.ball_vx = DMulInt(DSub(HitRatio, DHalf), 10)
        /\ DLt(DAbs(widget.ball_vx), VX_BOUND)
        /\ DLt(widget.ball_vy, DZero)
        /\ widget.ball_y = DInt(ViewH - PADDLE_ABOVE - BALL_R)

\* The ball met the paddle with its centre beyond the paddle's right end
\* and left with vx above 5.
C16_Witness ==
    /\ MetPaddle
    /\ DLt(DInt(PADDLE_W), HitOffset)
    /\ DLt(DInt(5), widget.ball_vx)
    /\ DLt(widget.ball_vy, DZero)

\* ----------------------------------------------- the ball inside the walls
\* Key presses and resizes followed where the ball inside the walls is what
\* matters: the widget made wider and narrower again.
MaxInsideEvents == 2

\* The game of SpecWalls in a widget the user also resizes between 800 and
\* 850 pixels: the 110-character lines get no brick at either width, and
\* the ball crosses the widget.
EnvInside == [flight |-> MaxWallFlight, events |-> MaxInsideEvents,
              launches |-> MaxWallLaunches,
              keys |-> {"Right"}, in_flight |-> FALSE,
              eas |-> {5}, sizes |-> {<<800, 520>>, <<850, 530>>}]

InitInside == InitGame({5})

\* The handlers of SpecWalls and the resize: the user resizes the widget
\* while the ball rests, and while the ball flies makes it so narrow that
\* the ball is left at or beyond the right wall of the new width.
NextInside ==
    \/ Tick(EnvInside)
    \/ KeyPress(EnvInside)
    \/ Launch(EnvInside)
    \/ /\ Resize(EnvInside)
       /\ widget.launched =>
              DLe(DInt(Max(MIN_W, widget'.width) - BALL_R), widget.ball_x)

SpecInside == InitInside /\ [][NextInside]_vars

\* C17: at the end of every tick taken while the game is not over the ball
\* is inside the side walls and below the top wall of the viewport the tick
\* saw: radius <= ball_x <= w - radius and ball_y >= radius.
C17_BallInsideWalls ==
    (TickDone /\ ~last.pre.game_over) =>
        /\ DLe(BALL_RADIUS, widget.ball_x)
        /\ DLe(widget.ball_x, DInt(ViewW - BALL_R))
        /\ DLe(BALL_RADIUS, widget.ball_y)

\* The widget was narrowed while the ball flew beyond its new right wall:
\* the next tick put the ball back at w - radius.
C17_Witness ==
    /\ InPlayTick
    /\ DLt(DInt(ViewW), last.pre.ball_x)
    /\ widget.ball_x = DInt(ViewW - BALL_R)
    /\ DLe(BALL_RADIUS, widget.ball_y)

\* A ball the paddle sent to the left came to the left wall, and the tick
\* put it back at radius.
C17_WitnessLeft ==
    /\ AtLeftWall
    /\ DLt(MovedX, BALL_RADIUS)
    /\ widget.ball_x = BALL_RADIUS

\* The ball came to the top wall in the widened widget, and the tick put it
\* back at radius.
C17_WitnessTop ==
    /\ AtTopWall
    /\ last.pre.width = 850
    /\ DLt(MovedY, BALL_RADIUS)
    /\ widget.ball_y = BALL_RADIUS

\* ------------------------------------------------ the forms and the plugin
\* Key presses and releases, plugin runs and terms, resizes and closes
\* followed where the forms are what matters: a term, the run after it and
\* the close of one of the two forms then open.
MaxFormEvents == 3

\* The plugin started at address 2, the user free to go to address 4, to
\* move the paddle right, to resize, to close any form, and to run and to
\* terminate the plugin.
EnvForms == [flight |-> MaxShortFlight, events |-> MaxFormEvents,
             launches |-> MaxWallLaunches,
             keys |-> {"Right"}, in_flight |-> FALSE,
             eas |-> {4}, sizes |-> {<<800, 520>>, <<1000, 530>>}]

InitForms == InitGame({2})

\* The handlers of the widget, of the forms and of the plugin.
NextForms ==
    \/ Tick(EnvForms)
    \/ KeyPress(EnvForms)
    \/ Launch(EnvForms)
    \/ RefreshSource(EnvForms)
    \/ KeyRelease(EnvForms)
    \/ Resize(EnvForms)
    \/ SetSourceEa(EnvForms)
    \/ Run(EnvForms)
    \/ CloseEvent(EnvForms)
    \/ OnClose(EnvForms)
    \/ OnCloseOther(EnvForms)
    \/ Term(EnvForms)

SpecForms == InitForms /\ [][NextForms]_vars

\* -------------------------------------------------- the layout on its own
\* Longest line laid out, in runs of characters of one class.
MaxParts == 4

\* The runs a line is made of: a character or 45 of them, word or blank.
Runs == {Word(1), Word(45), Space(1), Space(45)}

\* The lines of 1..n runs.
RECURSIVE LinesUpTo(_)
LinesUpTo(n) ==
    IF n = 0 THEN {}
    ELSE LinesUpTo(n - 1) \cup [1..n -> Runs]

\* The widget widths a line is laid out at: below the floor of 640, at it
\* and above it.
Widths == {500, 640, 720, 800, 900, 1000}

InitLayout ==
    /\ \E t \in LinesUpTo(MaxParts), w1 \in Widths, w2 \in Widths :
           lay_in = [text |-> t, narrow |-> w1, wide |-> w2, applied |-> FALSE]
    /\ lay_out = NoBricks
    /\ rot_in = NoRotation
    /\ rot_out = <<>>
    /\ \E f \in Fonts : widget = Constructed(1, f)
    /\ last = [op |-> "init", pre |-> Snapshot(widget)]
    /\ form = OneForm
    /\ launches = 0
    /\ events = 0

\* _build_bricks on the drawn line, once at each of the two widths.
Layout ==
    /\ ~lay_in.applied
    /\ LET labels == <<[line_no |-> 1, text |-> lay_in.text]>>
       IN  lay_out' =
               [narrow |-> BuildBricks(labels, lay_in.narrow, WIDGET_MIN_H, widget.fm),
                wide |-> BuildBricks(labels, lay_in.wide, WIDGET_MIN_H, widget.fm)]
    /\ lay_in' = [lay_in EXCEPT !.applied = TRUE]
    /\ UNCHANGED <<gameVars, rotVars>>

NextLayout == Layout

SpecLayout == InitLayout /\ [][NextLayout]_vars

\* C12: for every line and every two widget widths w1 <= w2, the bricks
\* _build_bricks lays out for the line at w1 are not more than those at w2
\* and are a prefix of them.
C12_TruncationMonotone ==
    (lay_in.applied /\ lay_in.narrow <= lay_in.wide) =>
        /\ Len(lay_out.narrow) <= Len(lay_out.wide)
        /\ lay_out.narrow = SubSeq(lay_out.wide, 1, Len(lay_out.narrow))

\* A line of three words of which the narrower widget shows one and the
\* wider one two.
C12_Witness ==
    /\ lay_in.applied
    /\ lay_in.narrow < lay_in.wide
    /\ Len(lay_out.narrow) = 1
    /\ Len(lay_out.wide) = 2
    /\ lay_out.narrow[1] = lay_out.wide[1]

\* ------------------------------------------------ the rotation on its own
\* Longest item sequence rotated.
MaxItems == 5

\* Anchors run from -MaxAnchor to MaxAnchor: below, inside and beyond every
\* sequence.
MaxAnchor == 8

\* Limits run from -2 to MaxLimit: negative, zero, short of and beyond every
\* sequence.
MaxLimit == 7

\* The item sequence of n lines, each item known by its line number.
Items(n) == [i \in 1..n |-> i]

InitRotate ==
    /\ \E n \in 0..MaxItems, a \in (-MaxAnchor)..MaxAnchor, l \in (-2)..MaxLimit :
           rot_in = [items |-> Items(n), anchor_idx |-> a, limit |-> l,
                     applied |-> FALSE]
    /\ rot_out = <<>>
    /\ lay_in = NoLayout
    /\ lay_out = NoBricks
    /\ \E f \in Fonts : widget = Constructed(1, f)
    /\ last = [op |-> "init", pre |-> Snapshot(widget)]
    /\ form = OneForm
    /\ launches = 0
    /\ events = 0

\* One call of _rotate_items_from_anchor on the drawn arguments.
Rotate ==
    /\ ~rot_in.applied
    /\ rot_out' = RotateItems(rot_in.items, rot_in.anchor_idx, rot_in.limit)
    /\ rot_in' = [rot_in EXCEPT !.applied = TRUE]
    /\ UNCHANGED <<gameVars, layVars>>

NextRotate == Rotate

SpecRotate == InitRotate /\ [][NextRotate]_vars

\* C1 as stated: for a non-empty sequence of length L, every integer anchor
\* and every limit, the rotation returns exactly min(limit, L) items and its
\* i-th item (0-based) is the input item at ((anchor mod L) + i) mod L.
C1_RotationLawAnyAnchor ==
    (rot_in.applied /\ Len(rot_in.items) > 0) =>
        LET L == Len(rot_in.items)
        IN  /\ Len(rot_out) = Min(rot_in.limit, L)
            /\ \A i \in 0..(Len(rot_out) - 1) :
                   rot_out[i + 1] =
                       rot_in.items[(((rot_in.anchor_idx % L) + i) % L) + 1]

\* C1 amended: for a non-empty sequence of length L, an anchor with
\* 0 <= anchor < L and every limit, the rotation returns exactly
\* max(0, min(limit, L)) items and its i-th item (0-based) is the input item
\* at (anchor + i) mod L.
C1_RotationLaw ==
    (/\ rot_in.applied
     /\ Len(rot_in.items) > 0
     /\ rot_in.anchor_idx >= 0
     /\ rot_in.anchor_idx < Len(rot_in.items)) =>
        LET L == Len(rot_in.items)
        IN  /\ Len(rot_out) = Max(0, Min(rot_in.limit, L))
            /\ \A i \in 0..(Len(rot_out) - 1) :
                   rot_out[i + 1] = rot_in.items[((rot_in.anchor_idx + i) % L) + 1]

\* The example of C1: items [1,2,3,4,5], anchor 3, limit 4 give [4,5,1,2].
C1_Witness ==
    /\ rot_in.applied
    /\ rot_in.items = <<1, 2, 3, 4, 5>>
    /\ rot_in.anchor_idx = 3
    /\ rot_in.limit = 4
    /\ rot_out = <<4, 5, 1, 2>>

\* C2: for every sequence and every anchor that is negative or not below the
\* sequence's length the rotation returns what it returns for anchor 0, the
\* leading items in their order; for the empty sequence it returns the empty
\* list whatever the anchor and the limit.
C2_OutOfRangeAnchor ==
    rot_in.applied =>
        /\ (rot_in.anchor_idx < 0 \/ rot_in.anchor_idx >= Len(rot_in.items)) =>
               /\ rot_out = RotateItems(rot_in.items, 0, rot_in.limit)
               /\ \A i \in 1..Len(rot_out) : rot_out[i] = rot_in.items[i]
        /\ Len(rot_in.items) = 0 => rot_out = <<>>

\* An anchor beyond a sequence of five items whose rotation would differ.
C2_Witness ==
    /\ rot_in.applied
    /\ rot_in.items = <<1, 2, 3, 4, 5>>
    /\ rot_in.anchor_idx = 7
    /\ rot_in.limit = 4
    /\ rot_out = <<1, 2, 3, 4>>

====
